---- MODULE Spec2Model ----
(***************************************************************************)
(* Model of the provider circuit breaker                                   *)
(* (backend/app/services/circuit_breaker.py) and of the resilient HTTP     *)
(* client that gates its calls on it (backend/app/services/http_client.py).*)
(*                                                                         *)
(* Two specifications share the state:                                     *)
(*   Spec        the breaker's public methods called directly, in any      *)
(*               order, on two providers, with the wall clock advancing;   *)
(*   SpecClient  concurrent ResilientHTTPClient.get/post coroutines on     *)
(*               one provider; every breaker update goes through them.     *)
(* Time is in seconds.  The event loop is single threaded, so a coroutine  *)
(* runs atomically between two awaits; each action is one such stretch.    *)
(***************************************************************************)
EXTENDS Integers, Sequences, FiniteSets, TLC

VARIABLES
    circuits,   \* CircuitBreaker.circuits: provider name -> circuit dict
    now,        \* datetime.now(), in seconds
    calls,      \* one get/post coroutine per client slot
    last,       \* the breaker method run by the latest step: what it returned and
                \* the state it found the provider in
    fail_run,   \* record_failure calls per provider since the last record_success
    search,     \* one FreeJobService.search_jobs call: its arguments and locals
    endpoint,   \* one POST /jobs/search request and its response
    role,       \* one POST /role-match request and its response
    scoring,    \* one JobScoringService call and its result
    analyze     \* one AnthropicService.analyze_resume call: its loop and result

breaker_vars == <<circuits, now, calls, last, fail_run>>
job_vars == <<search, endpoint, role, scoring, analyze>>
vars == <<circuits, now, calls, last, fail_run, search, endpoint, role, scoring,
          analyze>>

----------------------------------------------------------------------------
(* Program constants *)

failure_threshold == 3
timeout_seconds == 60
max_retries == 2
retry_delay == 1

(* Bounds of the model *)

\* the clock advances in steps of TickSeconds, at most MaxTicks times
TickSeconds == 20
MaxTicks == 7
\* record_failure is not called once a provider's count has reached MaxFailures
MaxFailures == 5

Providers == {"p", "q"}
ClientProviders == {"p"}
Clients == {"c1", "c2"}
Methods == {"get", "post"}

\* Python's None in a datetime field
None == 0 - 1

----------------------------------------------------------------------------
(* CircuitBreaker *)

\* the dict record_success and record_failure create for an unknown provider
NewCircuit ==
    [state |-> "closed", failures |-> 0, opened_at |-> None, half_open_at |-> None]

\* (mutant) the timeout test with > for >=
TimeoutPassed_gt(circuit, t) == t - circuit.opened_at > timeout_seconds

\* elapsed >= self.timeout_seconds, for a circuit in state open
TimeoutPassed(circuit, t) == t - circuit.opened_at >= timeout_seconds

\* the value is_open(provider_name) returns at time t
is_open_ret(circ, p, t) ==
    IF p \notin DOMAIN circ THEN FALSE
    ELSE IF circ[p].state = "closed" THEN FALSE
    ELSE IF circ[p].state = "open" /\ TimeoutPassed(circ[p], t) THEN FALSE
    ELSE circ[p].state = "open"

\* self.circuits after is_open(provider_name) at time t
is_open_circuits(circ, p, t) ==
    IF p \notin DOMAIN circ THEN circ
    ELSE IF circ[p].state = "closed" THEN circ
    ELSE IF circ[p].state = "open" /\ TimeoutPassed(circ[p], t)
         THEN [circ EXCEPT ![p].state = "half-open", ![p].half_open_at = t]
    ELSE circ

\* (mutant) record_success that resets every provider's circuit
record_success_all(circ, p) ==
    [q \in DOMAIN circ \cup {p} |-> NewCircuit]

\* (mutant) record_success that closes the circuit but keeps the failure count
record_success_keep_count(circ, p) ==
    IF p \notin DOMAIN circ THEN circ @@ (p :> NewCircuit)
    ELSE [circ EXCEPT ![p].state = "closed", ![p].opened_at = None]

\* self.circuits after record_success(provider_name)
record_success(circ, p) ==
    IF p \notin DOMAIN circ THEN circ @@ (p :> NewCircuit)
    ELSE [circ EXCEPT ![p].state = "closed",
                      ![p].failures = 0,
                      ![p].opened_at = None]

\* (mutant) record_failure that opens only above the threshold
record_failure_gt(circ, p, t) ==
    LET c0 == IF p \notin DOMAIN circ THEN circ @@ (p :> NewCircuit) ELSE circ
        f  == c0[p].failures + 1
    IN  IF c0[p].state = "half-open"
        THEN [c0 EXCEPT ![p].failures = f, ![p].state = "open", ![p].opened_at = t]
        ELSE IF f > failure_threshold
        THEN [c0 EXCEPT ![p].failures = f, ![p].state = "open", ![p].opened_at = t]
        ELSE [c0 EXCEPT ![p].failures = f]

\* (mutant) record_failure without the half-open branch: a failed trial leaves
\* the circuit half-open unless the count test reopens it, which it does
\* without a new opened_at
record_failure_no_reopen(circ, p, t) ==
    LET c0 == IF p \notin DOMAIN circ THEN circ @@ (p :> NewCircuit) ELSE circ
        f  == c0[p].failures + 1
    IN  IF c0[p].state = "half-open"
        THEN [c0 EXCEPT ![p].failures = f, ![p].state = "open"]
        ELSE IF f >= failure_threshold
        THEN [c0 EXCEPT ![p].failures = f, ![p].state = "open", ![p].opened_at = t]
        ELSE [c0 EXCEPT ![p].failures = f]

\* (mutant) record_failure that opens the circuit without stamping opened_at
record_failure_no_stamp(circ, p, t) ==
    LET c0 == IF p \notin DOMAIN circ THEN circ @@ (p :> NewCircuit) ELSE circ
        f  == c0[p].failures + 1
    IN  IF c0[p].state = "half-open"
        THEN [c0 EXCEPT ![p].failures = f, ![p].state = "open", ![p].opened_at = t]
        ELSE IF f >= failure_threshold
        THEN [c0 EXCEPT ![p].failures = f, ![p].state = "open"]
        ELSE [c0 EXCEPT ![p].failures = f]

\* self.circuits after record_failure(provider_name) at time t
record_failure(circ, p, t) ==
    LET c0 == IF p \notin DOMAIN circ THEN circ @@ (p :> NewCircuit) ELSE circ
        f  == c0[p].failures + 1
    IN  IF c0[p].state = "half-open"
        THEN [c0 EXCEPT ![p].failures = f, ![p].state = "open", ![p].opened_at = t]
        ELSE IF f >= failure_threshold
        THEN [c0 EXCEPT ![p].failures = f, ![p].state = "open", ![p].opened_at = t]
        ELSE [c0 EXCEPT ![p].failures = f]

\* get_state(provider_name)['state'] and ['failures']: an unknown provider reads closed, 0
StateOf(circ, p) == IF p \in DOMAIN circ THEN circ[p].state ELSE "closed"
FailuresOf(circ, p) == IF p \in DOMAIN circ THEN circ[p].failures ELSE 0
OpenedAtOf(circ, p) == IF p \in DOMAIN circ THEN circ[p].opened_at ELSE None

----------------------------------------------------------------------------
(* State *)

NoOp == [op |-> "none", provider |-> "", ret |-> FALSE, from |-> ""]

\* the log entry of breaker method op run on provider p in the current state
Did(op, p, ret) ==
    [op |-> op, provider |-> p, ret |-> ret, from |-> StateOf(circuits, p)]

\* a client slot: pc is the coroutine's position, attempt the loop variable,
\* last_error the local of that name ("" for None), wake_at the end of the
\* asyncio.sleep in progress.  The rest logs what the call has done so far:
\* admitted (is_open returned False), attempts (requests sent), slept (the delay
\* of each asyncio.sleep), n_success / n_failure (record_success / record_failure
\* calls made), raised (the exception that ended it, "" for none).
IdleCall ==
    [pc |-> "idle", provider |-> "", attempt |-> 0, last_error |-> "",
     wake_at |-> None, admitted |-> FALSE, attempts |-> 0, slept |-> <<>>,
     n_success |-> 0, n_failure |-> 0, raised |-> ""]

\* no search_jobs call has been made yet
IdleSearch ==
    [pc |-> "idle", query |-> "", location |-> "", num_results |-> 0,
     jobs |-> <<>>, next |-> 1, clash |-> <<>>,
     called |-> "", outcome |-> "", asked |-> 0,
     generated |-> 0]

\* no request has been handled yet
IdleEndpoint == [pc |-> "idle"]
IdleRole == [pc |-> "idle"]
IdleScoring == [pc |-> "idle"]
IdleAnalyze == [pc |-> "idle"]

Init ==
    /\ circuits = <<>>
    /\ now = 0
    /\ calls = [c \in Clients |-> IdleCall]
    /\ last = NoOp
    /\ fail_run = [p \in Providers |-> 0]
    /\ search = IdleSearch
    /\ endpoint = IdleEndpoint
    /\ role = IdleRole
    /\ scoring = IdleScoring
    /\ analyze = IdleAnalyze

----------------------------------------------------------------------------
(* FreeJobService (backend/app/services/free_job_svc.py) *)

(* Bounds of the model *)

\* search_jobs is called with num_results in 1..MaxResults
MaxResults == 19

\* the real providers, in the order search_jobs tries them
Adapters ==
    <<"jobicy", "remoteok", "weworkremotely", "authentic", "arbeitnow",
      "devitjobs", "graphql", "usajobs", "linkedin", "indeed">>

\* the first four adapters (the RSS feeds) are asked for at most 10 records
rss_adapters == 4
rss_limit == 10

Queries == {"teacher", "software engineer", "nurse"}
Locations == {"US", "Austin"}

\* str(hash(...)) differs from process to process (string hashing is seeded);
\* the model keeps which generated records get the same hash value: none, or
\* the two records whose indices the pair names
HashClashes == {<<>>, <<0, 1>>}

\* what one adapter call can do: raise (or fail inside and give []), find
\* nothing, or return as many records as it was asked for
AdapterOutcomes == {"error", "empty", "full"}

Min(a, b) == IF a <= b THEN a ELSE b

\* the num_results argument search_jobs passes to adapter number i
AskedOf(i, num_results, have) ==
    IF i <= rss_adapters THEN Min(rss_limit, num_results - have)
    ELSE num_results - have

\* record number j of an adapter's answer
AdapterJob(a, j) ==
    [title |-> <<a, "title", j>>, company |-> <<a, "company", j>>,
     url |-> <<a, j>>, location |-> "Remote", source |-> a]

\* a url is a pair of its text up to the job's number and that number; the
\* empty url is <<>>
NoUrl == <<>>

AdapterAnswer(a, outcome, asked) ==
    IF outcome = "full" THEN [j \in 1..asked |-> AdapterJob(a, j)] ELSE <<>>

\* `kw in query_lower` for the keywords search_jobs and the generators test
Mentions(query, kw) ==
    <<query, kw>> \in {<<"teacher", "teacher">>,
                       <<"software engineer", "software engineer">>,
                       <<"software engineer", "engineer">>}

\* the generator search_jobs picks (of those the modelled queries select)
GeneratorOf(query) ==
    IF Mentions(query, "software engineer") \/ Mentions(query, "software developer")
    THEN "software_engineer"
    ELSE "generic"

\* the company and title lists a generator cycles through: their name and length
CompanyList(gen, query) ==
    IF gen = "software_engineer" THEN [name |-> "software", len |-> 15]
    ELSE IF Mentions(query, "data") \/ Mentions(query, "analyst")
            \/ Mentions(query, "engineer")
    THEN [name |-> "tech", len |-> 15]
    ELSE IF Mentions(query, "health") \/ Mentions(query, "medical")
            \/ Mentions(query, "clinical")
    THEN [name |-> "health", len |-> 10]
    ELSE IF Mentions(query, "teacher") \/ Mentions(query, "educator")
            \/ Mentions(query, "education")
    THEN [name |-> "education", len |-> 9]
    ELSE [name |-> "other", len |-> 10]

TitleList(gen, query) ==
    IF gen = "software_engineer" THEN [name |-> "software", len |-> 7]
    ELSE [name |-> CompanyList(gen, query).name, len |-> 6]

\* abs(hash(query + company + str(i))) % 100000, up to renaming of the values
HashOf(clash, i) == IF clash # <<>> /\ clash[2] = i THEN clash[1] ELSE i

GeneratedLocation(location) == IF location # "US" THEN location ELSE "Remote"

\* record i (from 0) of a generator's answer
GeneratedJob(gen, query, location, clash, i) ==
    LET companies == CompanyList(gen, query)
        titles == TitleList(gen, query)
    IN [title |-> <<titles.name, "title", i % titles.len>>,
        company |-> <<companies.name, "company", i % companies.len>>,
        url |-> IF gen = "generic"
                THEN <<"https://www.linkedin.com/jobs/view/gen-", HashOf(clash, i)>>
                ELSE <<"https://www.linkedin.com/jobs/view/se-", i + 1,
                       i % companies.len>>,
        location |-> GeneratedLocation(location),
        source |-> "generated"]

Generate(gen, query, location, clash, n) ==
    [k \in 1..(IF n > 0 THEN n ELSE 0) |->
        GeneratedJob(gen, query, location, clash, k - 1)]

generate_generic_jobs(query, location, clash, n) ==
    Generate("generic", query, location, clash, n)

\* the generated records search_jobs appends when the adapters left it short
GeneratedFor(query, location, clash, n) ==
    Generate(GeneratorOf(query), query, location, clash, n)

\* the de-duplication loop of search_jobs: records with an empty or an already
\* seen url are dropped, and the loop stops at num_results records
RECURSIVE UniqueByUrl(_, _, _)
UniqueByUrl(jobs, unique, num_results) ==
    IF jobs = <<>> \/ Len(unique) >= num_results THEN unique
    ELSE LET job == Head(jobs)
             seen == {unique[k].url : k \in DOMAIN unique}
         IN UniqueByUrl(Tail(jobs),
                        IF job.url # NoUrl /\ job.url \notin seen
                        THEN Append(unique, job) ELSE unique,
                        num_results)

Take(seq, n) == SubSeq(seq, 1, Min(Len(seq), n))

\* what the generator is asked for
Shortfall(num_results, have) == num_results - have

\* search_jobs after the last adapter: generate the shortfall, de-duplicate, cut
SearchResult(s) ==
    LET short == Shortfall(s.num_results, Len(s.jobs))
        jobs == IF Len(s.jobs) < s.num_results
                THEN s.jobs \o GeneratedFor(s.query, s.location, s.clash, short)
                ELSE s.jobs
    IN Take(UniqueByUrl(jobs, <<>>, s.num_results), s.num_results)

\* search_jobs is entered
SearchStart(query, location, n, clash) ==
    /\ search.pc = "idle"
    /\ search' = [IdleSearch EXCEPT !.pc = "adapters", !.query = query,
                                    !.location = location, !.num_results = n,
                                    !.clash = clash]
    /\ UNCHANGED <<breaker_vars, analyze, endpoint, role, scoring>>

\* the next adapter is called: the HTTP request goes out without a look at the
\* breaker, and whatever happens to it stays inside search_jobs
AdapterCall(outcome) ==
    /\ search.pc = "adapters"
    /\ search.next <= Len(Adapters)
    /\ search.next = 1 \/ Len(search.jobs) < search.num_results
    /\ LET a == Adapters[search.next]
           asked == AskedOf(search.next, search.num_results, Len(search.jobs))
       IN search' = [search EXCEPT
                        !.jobs = @ \o AdapterAnswer(a, outcome, asked),
                        !.next = @ + 1,
                        !.called = a, !.outcome = outcome, !.asked = asked]
    /\ UNCHANGED <<breaker_vars, analyze, endpoint, role, scoring>>

\* the accumulator is full: the next adapter is passed over
AdapterSkip ==
    /\ search.pc = "adapters"
    /\ search.next <= Len(Adapters)
    /\ search.next > 1 /\ Len(search.jobs) >= search.num_results
    /\ search' = [search EXCEPT !.next = @ + 1, !.called = "", !.outcome = "",
                                !.asked = 0]
    /\ UNCHANGED <<breaker_vars, analyze, endpoint, role, scoring>>

\* the generator, the de-duplication and the return
SearchReturn ==
    /\ search.pc = "adapters"
    /\ search.next > Len(Adapters)
    /\ search' = [search EXCEPT !.pc = "done", !.jobs = SearchResult(search),
                                !.called = "", !.outcome = "", !.asked = 0,
                                !.generated =
                                    IF Len(search.jobs) < search.num_results
                                    THEN Shortfall(search.num_results, Len(search.jobs))
                                    ELSE 0]
    /\ UNCHANGED <<breaker_vars, analyze, endpoint, role, scoring>>

NextSearch ==
    \/ \E query \in Queries, location \in Locations, n \in 0..MaxResults,
          clash \in HashClashes : SearchStart(query, location, n, clash)
    \/ \E outcome \in AdapterOutcomes : AdapterCall(outcome)
    \/ AdapterSkip
    \/ SearchReturn

SpecSearch == Init /\ [][NextSearch]_vars

----------------------------------------------------------------------------
(* The breaker's methods, called directly *)

IsOpen(p) ==
    /\ circuits' = is_open_circuits(circuits, p, now)
    /\ last' = Did("is_open", p, is_open_ret(circuits, p, now))
    /\ UNCHANGED <<now, calls, fail_run>>
    /\ UNCHANGED job_vars

RecordSuccess(p) ==
    /\ circuits' = record_success(circuits, p)
    /\ last' = Did("record_success", p, FALSE)
    /\ fail_run' = [fail_run EXCEPT ![p] = 0]
    /\ UNCHANGED <<now, calls>>
    /\ UNCHANGED job_vars

RecordFailure(p) ==
    /\ FailuresOf(circuits, p) < MaxFailures
    /\ circuits' = record_failure(circuits, p, now)
    /\ last' = Did("record_failure", p, FALSE)
    /\ fail_run' = [fail_run EXCEPT ![p] = @ + 1]
    /\ UNCHANGED <<now, calls>>
    /\ UNCHANGED job_vars

Tick ==
    /\ now + TickSeconds <= MaxTicks * TickSeconds
    /\ now' = now + TickSeconds
    /\ last' = NoOp
    /\ UNCHANGED <<circuits, calls, fail_run>>
    /\ UNCHANGED job_vars

Next ==
    \/ \E p \in Providers : IsOpen(p)
    \/ \E p \in Providers : RecordSuccess(p)
    \/ \E p \in Providers : RecordFailure(p)
    \/ Tick

Spec == Init /\ [][Next]_vars

----------------------------------------------------------------------------
(* ResilientHTTPClient.get / post *)

\* the exception classes the retry loop catches, and one it does not
\* (httpx.ReadError, httpx.RemoteProtocolError, ... are none of the three)
CaughtErrors == {"HTTPStatusError", "TimeoutException", "ConnectError"}
OtherErrors == {"ReadError"}

\* (mutant) the backoff exponent off by one
BackoffDelay_next(attempt) == retry_delay * (2 ^ (attempt + 1))

\* delay = self.retry_delay * (2 ** attempt)
BackoffDelay(attempt) == retry_delay * (2 ^ attempt)

\* (mutant) the call enters the loop whatever the breaker says
AfterGate_no_check(p, open) ==
    [IdleCall EXCEPT !.pc = "attempt", !.provider = p, !.admitted = TRUE]

\* the call after the circuit breaker check: raise if open, else enter the loop
AfterGate(p, open) ==
    IF open
    THEN [IdleCall EXCEPT !.pc = "raised", !.provider = p, !.raised = "HTTPError"]
    ELSE [IdleCall EXCEPT !.pc = "attempt", !.provider = p, !.admitted = TRUE]

\* the call after a successful attempt: record_success, return response
AfterSuccess(call) ==
    [call EXCEPT !.pc = "returned", !.attempts = @ + 1, !.n_success = @ + 1]

\* whether the except clause takes the "last attempt" branch
IsLastAttempt(call) == call.attempt = max_retries

\* the call after a caught error on the last attempt: record_failure, raise
AfterFinalError(call, e) ==
    [call EXCEPT !.pc = "raised", !.attempts = @ + 1, !.last_error = e,
                 !.n_failure = @ + 1, !.raised = e]

\* the call after a caught error on an earlier attempt: asyncio.sleep(delay)
AfterRetryError(call, e, t) ==
    [call EXCEPT !.pc = "sleep", !.attempts = @ + 1, !.last_error = e,
                 !.slept = Append(@, BackoffDelay(call.attempt)),
                 !.wake_at = t + BackoffDelay(call.attempt)]

\* the call after an exception the except clause does not name: it propagates
AfterUncaught(call, e) ==
    [call EXCEPT !.pc = "raised", !.attempts = @ + 1, !.raised = e]

\* get(url, provider_name) / post(url, provider_name) up to the first await.
\* The two methods have the same body but for the request they send, so the
\* method m chosen is an input that the state does not keep.
Start(c, m, p) ==
    /\ calls[c].pc \in {"idle", "returned", "raised"}
    /\ calls' = [calls EXCEPT ![c] = AfterGate(p, is_open_ret(circuits, p, now))]
    /\ circuits' = is_open_circuits(circuits, p, now)
    /\ last' = Did("is_open", p, is_open_ret(circuits, p, now))
    /\ UNCHANGED <<now, fail_run>>
    /\ UNCHANGED job_vars

\* the request succeeds and raise_for_status() passes
AttemptOk(c) ==
    /\ calls[c].pc = "attempt"
    /\ calls' = [calls EXCEPT ![c] = AfterSuccess(@)]
    /\ circuits' = record_success(circuits, calls[c].provider)
    /\ last' = Did("record_success", calls[c].provider, FALSE)
    /\ fail_run' = [fail_run EXCEPT ![calls[c].provider] = 0]
    /\ UNCHANGED now
    /\ UNCHANGED job_vars

\* a caught error on the last attempt
AttemptFinalError(c, e) ==
    /\ calls[c].pc = "attempt"
    /\ IsLastAttempt(calls[c])
    /\ FailuresOf(circuits, calls[c].provider) < MaxFailures
    /\ calls' = [calls EXCEPT ![c] = AfterFinalError(@, e)]
    /\ circuits' = record_failure(circuits, calls[c].provider, now)
    /\ last' = Did("record_failure", calls[c].provider, FALSE)
    /\ fail_run' = [fail_run EXCEPT ![calls[c].provider] = @ + 1]
    /\ UNCHANGED now
    /\ UNCHANGED job_vars

\* a caught error on an earlier attempt: back off
AttemptRetryError(c, e) ==
    /\ calls[c].pc = "attempt"
    /\ ~IsLastAttempt(calls[c])
    /\ calls' = [calls EXCEPT ![c] = AfterRetryError(@, e, now)]
    /\ last' = NoOp
    /\ UNCHANGED <<circuits, now, fail_run>>
    /\ UNCHANGED job_vars

\* an error of a class the loop does not catch
AttemptUncaught(c, e) ==
    /\ calls[c].pc = "attempt"
    /\ calls' = [calls EXCEPT ![c] = AfterUncaught(@, e)]
    /\ last' = NoOp
    /\ UNCHANGED <<circuits, now, fail_run>>
    /\ UNCHANGED job_vars

\* asyncio.sleep(delay) returns: the next iteration of the loop
Wake(c) ==
    /\ calls[c].pc = "sleep"
    /\ now >= calls[c].wake_at
    /\ calls' = [calls EXCEPT ![c].pc = "attempt", ![c].attempt = @ + 1]
    /\ last' = NoOp
    /\ UNCHANGED <<circuits, now, fail_run>>
    /\ UNCHANGED job_vars

\* the task is cancelled while it sleeps: CancelledError propagates
Cancel(c) ==
    /\ calls[c].pc = "sleep"
    /\ calls' = [calls EXCEPT ![c].pc = "raised", ![c].raised = "CancelledError"]
    /\ last' = NoOp
    /\ UNCHANGED <<circuits, now, fail_run>>
    /\ UNCHANGED job_vars

\* The statements after the loop (record_failure; raise last_error or HTTPError)
\* are not reached: with max_retries >= 0 the last iteration returns or raises.
NextClient ==
    \/ \E c \in Clients, m \in Methods, p \in ClientProviders : Start(c, m, p)
    \/ \E c \in Clients : AttemptOk(c)
    \/ \E c \in Clients, e \in CaughtErrors : AttemptFinalError(c, e)
    \/ \E c \in Clients, e \in CaughtErrors : AttemptRetryError(c, e)
    \/ \E c \in Clients, e \in OtherErrors : AttemptUncaught(c, e)
    \/ \E c \in Clients : Wake(c)
    \/ \E c \in Clients : Cancel(c)
    \/ Tick

SpecClient == Init /\ [][NextClient]_vars

----------------------------------------------------------------------------
(* Properties of the circuit breaker (checked under Spec) *)

\* circ after k record_failure(p) calls at time t
RECURSIVE Failures(_, _, _, _)
Failures(circ, p, t, k) ==
    IF k = 0 THEN circ ELSE Failures(record_failure(circ, p, t), p, t, k - 1)

\* C1: starting from no history (or from closed with 0 failures), after fewer
\* than failure_threshold record_failure(p) calls with no record_success(p) in
\* between the breaker is closed and is_open(p) returns false; after exactly
\* failure_threshold of them it has been opened, and is_open(p) returns true
\* while less than timeout_seconds have elapsed.
C1_ThresholdOpens ==
    \A p \in Providers :
        /\ fail_run[p] < failure_threshold =>
              /\ StateOf(circuits, p) = "closed"
              /\ ~is_open_ret(circuits, p, now)
        /\ fail_run[p] = failure_threshold =>
              /\ StateOf(circuits, p) \in {"open", "half-open"}
              /\ now - circuits[p].opened_at < timeout_seconds =>
                    /\ circuits[p].state = "open"
                    /\ is_open_ret(circuits, p, now)
                    /\ is_open_circuits(circuits, p, now) = circuits

\* C1 witness: the failure_threshold-th failure in a row has just opened p
C1_Witness ==
    /\ last = [op |-> "record_failure", provider |-> "p", ret |-> FALSE, from |-> "closed"]
    /\ fail_run["p"] = failure_threshold
    /\ circuits["p"].state = "open"
    /\ is_open_ret(circuits, "p", now)

\* C2: is_open(p) on an open breaker returns true and changes nothing while
\* now - opened_at < timeout_seconds; called when now - opened_at >=
\* timeout_seconds it returns false and moves the breaker to half-open.
C2_OpenUntilTimeout ==
    [][\A p \in Providers :
          (last'.op = "is_open" /\ last'.provider = p /\ StateOf(circuits, p) = "open") =>
              IF now - circuits[p].opened_at < timeout_seconds
              THEN last'.ret = TRUE /\ circuits' = circuits
              ELSE /\ last'.ret = FALSE
                   /\ circuits'[p].state = "half-open"
                   /\ circuits'[p].opened_at = circuits[p].opened_at
                   /\ circuits'[p].failures = circuits[p].failures]_vars

\* C2 witness: is_open(p) has just moved p to half-open, exactly
\* timeout_seconds after it opened
C2_Witness ==
    /\ last = [op |-> "is_open", provider |-> "p", ret |-> FALSE, from |-> "open"]
    /\ circuits["p"].state = "half-open"
    /\ now - circuits["p"].opened_at = timeout_seconds

\* C3 (as claimed): once is_open(p) has moved the breaker to half-open, every
\* further is_open(p) returns true until a record_success(p) or
\* record_failure(p), that is for as long as the breaker is half-open.
C3_OneTrialPerHalfOpen ==
    [][\A p \in Providers :
          (last'.op = "is_open" /\ last'.provider = p
              /\ StateOf(circuits, p) = "half-open") => last'.ret = TRUE]_vars

\* C4: record_failure(p) on a half-open breaker opens it at once with
\* opened_at = now, whatever the failure count; is_open(p) then returns true
\* until timeout_seconds have elapsed from that failure, and false after.
C4_FailedTrialReopens ==
    \A p \in Providers :
        (last.op = "record_failure" /\ last.provider = p /\ last.from = "half-open") =>
            /\ circuits[p].state = "open"
            /\ circuits[p].opened_at = now
            /\ \A t \in now .. now + timeout_seconds - 1 :
                  /\ is_open_ret(circuits, p, t)
                  /\ is_open_circuits(circuits, p, t) = circuits
            /\ ~is_open_ret(circuits, p, now + timeout_seconds)

\* C4 witness: a trial admitted after the timeout has just failed
C4_Witness ==
    /\ last = [op |-> "record_failure", provider |-> "p", ret |-> FALSE,
               from |-> "half-open"]
    /\ circuits["p"].state = "open"
    /\ circuits["p"].opened_at = now
    /\ now >= timeout_seconds

\* C5: after record_success(p), from any state, p is closed with 0 failures and
\* opened_at None; is_open(p) returns false, and stays false through
\* failure_threshold - 1 further failures; the failure_threshold-th opens it.
C5_SuccessResets ==
    \A p \in Providers :
        (last.op = "record_success" /\ last.provider = p) =>
            /\ p \in DOMAIN circuits
            /\ circuits[p].state = "closed"
            /\ circuits[p].failures = 0
            /\ circuits[p].opened_at = None
            /\ ~is_open_ret(circuits, p, now)
            /\ \A k \in 1 .. failure_threshold - 1 :
                  /\ StateOf(Failures(circuits, p, now, k), p) = "closed"
                  /\ ~is_open_ret(Failures(circuits, p, now, k), p, now)
            /\ is_open_ret(Failures(circuits, p, now, failure_threshold), p, now)

\* C5 witness: record_success(p) has just closed a half-open breaker, while
\* another provider's breaker is open
C5_Witness ==
    /\ last = [op |-> "record_success", provider |-> "p", ret |-> FALSE,
               from |-> "half-open"]
    /\ circuits["p"].state = "closed"
    /\ "q" \in DOMAIN circuits /\ circuits["q"].state = "open"

\* C6 (as claimed): a provider whose stored state is open has at least
\* failure_threshold failures, an opened_at, and now - opened_at < timeout_seconds.
C6_OpenWithinTimeout ==
    \A p \in DOMAIN circuits :
        circuits[p].state = "open" =>
            /\ circuits[p].failures >= failure_threshold
            /\ circuits[p].opened_at # None
            /\ now - circuits[p].opened_at < timeout_seconds

\* C6 (amended): a provider whose stored state is open has at least
\* failure_threshold failures and an opened_at that is not in the future; the
\* stored state stays open after timeout_seconds have elapsed, until the next
\* is_open(p), which returns true exactly while now - opened_at < timeout_seconds.
C6_OpenHasCountAndStamp ==
    \A p \in DOMAIN circuits :
        circuits[p].state = "open" =>
            /\ circuits[p].failures >= failure_threshold
            /\ circuits[p].opened_at # None
            /\ circuits[p].opened_at <= now
            /\ is_open_ret(circuits, p, now) <=>
                  (now - circuits[p].opened_at < timeout_seconds)

\* C6 witness: p is still stored as open after its timeout has elapsed
C6_Witness ==
    /\ "p" \in DOMAIN circuits
    /\ circuits["p"].state = "open"
    /\ now - circuits["p"].opened_at > timeout_seconds

----------------------------------------------------------------------------
(* Properties of ResilientHTTPClient.get / post (checked under SpecClient) *)

\* client c is between two calls in the current state
Idle(c) == calls[c].pc \in {"idle", "returned", "raised"}

\* C7: a get/post for a provider whose is_open returns true raises at once:
\* it sends no request, does not sleep, calls neither record_success nor
\* record_failure, and leaves the provider's circuit as it was.
C7_OpenRejects ==
    [][\A c \in Clients :
          (Idle(c) /\ calls'[c] # calls[c]
              /\ is_open_ret(circuits, calls'[c].provider, now)) =>
                /\ calls'[c].pc = "raised"
                /\ calls'[c].raised = "HTTPError"
                /\ calls'[c].attempts = 0
                /\ calls'[c].slept = <<>>
                /\ calls'[c].n_success = 0
                /\ calls'[c].n_failure = 0
                /\ circuits' = circuits
                /\ fail_run' = fail_run]_vars

\* C7 witness: a call has just been refused because the breaker is open
C7_Witness ==
    /\ last = [op |-> "is_open", provider |-> "p", ret |-> TRUE, from |-> "open"]
    /\ \E c \in Clients :
          calls[c].pc = "raised" /\ ~calls[c].admitted /\ calls[c].provider = "p"

\* C8 (as claimed): an admitted call makes at most max_retries + 1 attempts,
\* none after a successful one, and once it has ended it has updated the
\* breaker exactly once: record_success if an attempt succeeded, otherwise one
\* record_failure.
C8_OneUpdatePerCall ==
    \A c \in Clients :
        calls[c].admitted =>
            /\ calls[c].attempts <= max_retries + 1
            /\ calls[c].n_success > 0 => calls[c].pc = "returned"
            /\ calls[c].pc = "returned" =>
                  calls[c].n_success = 1 /\ calls[c].n_failure = 0
            /\ calls[c].pc = "raised" =>
                  calls[c].n_success = 0 /\ calls[c].n_failure = 1

\* C9 (as claimed): every admitted call that ended by raising has called
\* record_failure.
C9_RaiseRecordsFailure ==
    \A c \in Clients :
        (calls[c].admitted /\ calls[c].pc = "raised") => calls[c].n_failure >= 1

\* C10: the k-th sleep of a call (k = 1 .. max_retries) lasts
\* retry_delay * 2^(k-1), and the next attempt starts no earlier than that;
\* a call sleeps after each failed attempt but the last, and neither after the
\* last failed attempt nor after a success.
C10_ExponentialBackoff ==
    \A c \in Clients :
        /\ Len(calls[c].slept) <= max_retries
        /\ \A k \in 1 .. Len(calls[c].slept) :
              calls[c].slept[k] = retry_delay * (2 ^ (k - 1))
        /\ calls[c].pc = "sleep" =>
              /\ Len(calls[c].slept) = calls[c].attempts
              /\ calls[c].wake_at - calls[c].slept[Len(calls[c].slept)] <= now
        /\ calls[c].pc = "attempt" =>
              /\ Len(calls[c].slept) = calls[c].attempts
              /\ calls[c].attempt > 0 => now >= calls[c].wake_at
        /\ calls[c].pc = "returned" =>
              Len(calls[c].slept) = calls[c].attempts - 1
        /\ (calls[c].pc = "raised" /\ calls[c].admitted
                /\ calls[c].raised # "CancelledError") =>
              Len(calls[c].slept) = calls[c].attempts - 1

\* C10 witness: a call has failed max_retries + 1 times, sleeping 1 s and 2 s
C10_Witness ==
    \E c \in Clients :
        /\ calls[c].pc = "raised"
        /\ calls[c].attempts = max_retries + 1
        /\ calls[c].n_failure = 1
        /\ calls[c].slept = <<1, 2>>

----------------------------------------------------------------------------
(* POST /jobs/search (backend/app/routes/jobSearch.py) *)

(* Bounds of the model *)

\* the request's limit is in 1..MaxLimit
MaxLimit == 2

\* `a in b` for two different non-empty strings of the model
SubstringPairs ==
    {<<"analyst", "data analyst">>, <<"data", "data analyst">>,
     <<"sql", "mysql">>, <<"java", "javascript">>,
     <<"python", "python and java developer">>,
     <<"java", "python and java developer">>,
     <<"expired_jd_redirect",
       "https://www.linkedin.com/jobs/view/expired_jd_redirect">>,
     <<"google.com/search", "https://www.google.com/search?q=jobs&n=">>,
     <<"example.com", "https://example.com/jobs/">>,
     <<"sql", "strong sql skills">>, <<"sql", "sql tuning and python">>,
     <<"python", "sql tuning and python">>}

Contains(a, b) == a = "" \/ a = b \/ <<a, b>> \in SubstringPairs

\* s.lower().strip() for the strings of the model
Normal(s) ==
    CASE s = " " -> ""
      [] s = "Data Engineer " -> "data engineer"
      [] s = "Data Engineer" -> "data engineer"
      [] s = "Acme" -> "acme"
      [] s = "ACME" -> "acme"
      [] s = "US-Remote" -> "us-remote"
      [] s = "Python" -> "python"
      [] s = " sql " -> "sql"
      [] OTHER -> s

\* the request: role, skills, minMatch (in hundredths) and limit
Roles == {"data analyst", "teacher"}
SkillLists == {<<>>, <<" ">>, <<"sql">>, <<"teacher">>, <<"python", "sql">>}
MinMatches == {0, 10, 40}
default_min_match == 40

\* a match score, the fraction num / den
Ratio(num, den) == [num |-> num, den |-> den]
AtLeast(a, b) == a.num * b.den >= b.num * a.den

RECURSIVE SumOver(_, _)
SumOver(S, f) ==
    IF S = {} THEN 0
    ELSE LET x == CHOOSE y \in S : TRUE IN f[x] + SumOver(S \ {x}, f)

Range(seq) == {seq[k] : k \in DOMAIN seq}

\* twice the weight of a pair of tokens: 1.0 when equal, 0.5 when one contains
\* the other
PairWeight2(s1, s2) ==
    IF s1 = s2 THEN 2 ELSE IF Contains(s1, s2) \/ Contains(s2, s1) THEN 1 ELSE 0

weighted_jaccard_similarity(skills1, skills2) ==
    LET set1 == {Normal(x) : x \in {y \in Range(skills1) : Normal(y) # ""}}
        set2 == {Normal(x) : x \in {y \in skills2 : Normal(y) # ""}}
        union == Cardinality(set1) + Cardinality(set2)
        intersection2 ==
            SumOver(set1 \X set2, [pr \in set1 \X set2 |-> PairWeight2(pr[1], pr[2])])
    IN IF skills1 = <<>> \/ skills2 = {} THEN Ratio(0, 1)
       ELSE IF set1 = {} \/ set2 = {} THEN Ratio(0, 1)
       ELSE IF union = 0 THEN Ratio(0, 1)
       ELSE IF intersection2 >= 2 * union THEN Ratio(1, 1)
       ELSE Ratio(intersection2, 2 * union)

\* a job dict; skills stands for extract_skills_from_text of its title and
\* description
JobDict(title, company, url, location, source, skills) ==
    [title |-> title, company |-> company, url |-> url, location |-> location,
     source |-> source, skills |-> skills]

\* the f-strings of the generic fallback list, for the roles of the model that
\* reach it
RoleTitle(prefix, r, suffix) ==
    CASE <<prefix, r, suffix>> = <<"", "teacher", "">> -> "teacher"
      [] <<prefix, r, suffix>> = <<"Senior ", "teacher", "">> -> "Senior teacher"
      [] <<prefix, r, suffix>> = <<"", "teacher", " - Remote">> -> "teacher - Remote"
      [] <<prefix, r, suffix>> = <<"", "teacher", " II">> -> "teacher II"
      [] <<prefix, r, suffix>> = <<"", "teacher", " - Full Time">> -> "teacher - Full Time"

\* get_fallback_jobs: the static lists of the modelled roles, cut to limit; the
\* skills of the generic list are those of a one-word role
FallbackList(r, location) ==
    IF Contains("data analyst", r) \/ Contains("analyst", r)
    THEN <<JobDict("Senior Data Analyst", "JP Morgan", "https://www.linkedin.com/jobs/view/12345",
                   location, "fallback",
                   {"analysis", "analyst", "data", "data analyst", "python",
                    "senior", "sql", "tableau"}),
           JobDict("Data Analyst", "Goldman Sachs", "https://www.linkedin.com/jobs/view/12346",
                   location, "fallback",
                   {"analyst", "data", "data analyst", "excel", "power", "sql",
                    "statistics"}),
           JobDict("Business Data Analyst", "McKinsey", "https://www.linkedin.com/jobs/view/12347",
                   location, "fallback",
                   {"analysis", "analyst", "business", "data", "data analyst",
                    "intelligence", "python"}),
           JobDict("Data Analyst - Remote", "Salesforce", "https://www.linkedin.com/jobs/view/12348",
                   location, "fallback",
                   {"analyst", "data", "data analyst", "python", "remote", "sql",
                    "tableau", "visualization"}),
           JobDict("Data Analyst II", "Tableau", "https://www.linkedin.com/jobs/view/12349",
                   location, "fallback",
                   {"analysis", "analyst", "data", "data analyst", "sql",
                    "statistics", "tableau"})>>
    ELSE <<JobDict(RoleTitle("", r, ""), "Tech Corp", "https://www.linkedin.com/jobs/view/32345",
                   location, "fallback", {"position", r}),
           JobDict(RoleTitle("Senior ", r, ""), "Data Solutions", "https://www.linkedin.com/jobs/view/32346",
                   location, "fallback", {"position", "senior", r}),
           JobDict(RoleTitle("", r, " - Remote"), "Cloud Services", "https://www.linkedin.com/jobs/view/32347",
                   location, "fallback", {"position", "remote", r}),
           JobDict(RoleTitle("", r, " II"), "Analytics Inc", "https://www.linkedin.com/jobs/view/32348",
                   location, "fallback", {"level", "position", r}),
           JobDict(RoleTitle("", r, " - Full Time"), "Digital Innovations", "https://www.linkedin.com/jobs/view/32349",
                   location, "fallback", {"full", "position", "time", r})>>

get_fallback_jobs(r, location, limit) == Take(FallbackList(r, location), limit)

\* the four adapters, in the order the endpoint calls them
EndpointAdapters == <<"greenhouse", "lever", "linkedin", "jsearch">>

\* what an adapter returns when it finds something
AdapterFinds(a) ==
    CASE a = "greenhouse" ->
           <<JobDict("Data Engineer", "Acme", "https://boards.greenhouse.io/acme/jobs/1",
                     "US-Remote", "greenhouse", {"sql"})>>
      [] a = "lever" ->
           <<JobDict("Data Engineer ", "ACME", "https://jobs.lever.co/acme/2",
                     "US-Remote", "lever", {"sql", "python"})>>
      [] a = "linkedin" ->
           <<JobDict("DBA", "Initech", "https://www.linkedin.com/jobs/view/77",
                     "US-Remote", "linkedin", {"mysql"})>>
      [] a = "jsearch" ->
           <<JobDict("ETL Developer", "Globex", "", "US-Remote", "jsearch",
                     {"etl", "data"}),
             JobDict("SQL Developer", "Hooli",
                     "https://www.linkedin.com/jobs/view/expired_jd_redirect",
                     "US-Remote", "jsearch", {"sql", "etl"})>>

\* an adapter raises, finds nothing, or finds its records
EndpointOutcomes == {"error", "empty", "found"}

RECURSIVE Collect(_, _)
Collect(outcomes, i) ==
    IF i > Len(EndpointAdapters) THEN <<>>
    ELSE (IF outcomes[i] = "found" THEN AdapterFinds(EndpointAdapters[i]) ELSE <<>>)
         \o Collect(outcomes, i + 1)

\* `request.minMatch or 0.4`
Threshold(minMatch) == Ratio(IF minMatch = 0 THEN default_min_match ELSE minMatch, 100)

\* the scoring loop: jobs below the threshold are dropped
WithScore(job, skills) ==
    [title |-> job.title, company |-> job.company, url |-> job.url,
     location |-> job.location, source |-> job.source,
     matchScore |-> weighted_jaccard_similarity(skills, job.skills)]

RECURSIVE Scored(_, _, _)
Scored(jobs, skills, minMatch) ==
    IF jobs = <<>> THEN <<>>
    ELSE LET job == WithScore(Head(jobs), skills)
         IN (IF AtLeast(job.matchScore, Threshold(minMatch)) THEN <<job>> ELSE <<>>)
            \o Scored(Tail(jobs), skills, minMatch)

NormalKey(job) == <<Normal(job.title), Normal(job.company), Normal(job.location)>>

RECURSIVE UniqueByKey(_, _)
UniqueByKey(jobs, unique) ==
    IF jobs = <<>> THEN unique
    ELSE UniqueByKey(Tail(jobs),
                     IF NormalKey(Head(jobs)) \in {NormalKey(unique[k]) : k \in DOMAIN unique}
                     THEN unique ELSE Append(unique, Head(jobs)))

\* list.sort(key = matchScore, reverse = True): stable, highest score first
RECURSIVE InsertByScore(_, _)
InsertByScore(sorted, job) ==
    IF sorted = <<>> THEN <<job>>
    ELSE IF AtLeast(Head(sorted).matchScore, job.matchScore)
    THEN <<Head(sorted)>> \o InsertByScore(Tail(sorted), job)
    ELSE <<job>> \o sorted

RECURSIVE SortByScore(_)
SortByScore(jobs) ==
    IF jobs = <<>> THEN <<>>
    ELSE InsertByScore(SortByScore(SubSeq(jobs, 1, Len(jobs) - 1)), jobs[Len(jobs)])

\* the url of an item: a missing or expired one is replaced
ApplyUrl(job) ==
    IF job.url = "" \/ Contains("expired_jd_redirect", job.url)
    THEN "https://www.linkedin.com/jobs/view/<hash>"
    ELSE job.url

SearchItem(job) ==
    [title |-> job.title, company |-> job.company, location |-> job.location,
     source |-> job.source, applyUrl |-> ApplyUrl(job), matchScore |-> job.matchScore]

\* the items of the except branch
FallbackItem(job) ==
    [title |-> job.title, company |-> job.company, location |-> job.location,
     source |-> "fallback", applyUrl |-> job.url, matchScore |-> Ratio(1, 2)]

\* the items the handler returns; fails: something in the try block raised
SearchItems(req, outcomes, fails) ==
    LET collected == Collect(outcomes, 1)
        all_jobs == IF Len(collected) = 0
                    THEN get_fallback_jobs(req.role, "US-Remote", req.limit)
                    ELSE collected
        limited == Take(SortByScore(UniqueByKey(Scored(all_jobs, req.skills, req.minMatch),
                                                <<>>)),
                        req.limit)
        fallback == get_fallback_jobs(req.role, "US-Remote", req.limit)
    IN IF fails THEN [k \in DOMAIN fallback |-> FallbackItem(fallback[k])]
       ELSE [k \in DOMAIN limited |-> SearchItem(limited[k])]

\* one request handled from start to return
JobsSearch ==
    /\ endpoint.pc = "idle"
    /\ \E r \in Roles, skills \in SkillLists, minMatch \in MinMatches,
          limit \in 1..MaxLimit,
          outcomes \in [1..4 -> EndpointOutcomes], fails \in BOOLEAN :
           LET req == [role |-> r, skills |-> skills, minMatch |-> minMatch,
                       limit |-> limit]
           IN endpoint' = [pc |-> "returned", request |-> req,
                           outcomes |-> outcomes, fails |-> fails,
                           items |-> SearchItems(req, outcomes, fails)]
    /\ UNCHANGED <<breaker_vars, analyze, search, role, scoring>>

NextEndpoint == JobsSearch

SpecEndpoint == Init /\ [][NextEndpoint]_vars

----------------------------------------------------------------------------
(* JobScoringService.score_job_match (backend/app/services/job_scoring_svc.py) *)

(* Program constants *)

CORE_MATCH_BONUS == 10
ADJACENT_MATCH_BONUS == 5
ADVANCED_MATCH_BONUS == 3
MENTIONED_MATCH_BONUS == 2
REQUIRED_GAP_PENALTY == 8
OPTIONAL_GAP_PENALTY == 4
EXACT_TOOL_BONUS == 5
EXPERIENCE_BOOST == 2
base_score == 50
max_why_fit == 5
max_gaps == 3

exact_tools ==
    {"fastapi", "redshift", "snowflake", "bigquery", "airflow", "kafka",
     "terraform", "kubernetes"}

(* Bounds of the model *)

\* a candidate vector has at most MaxCandidate entries, a requirement vector at
\* most MaxRequired (besides the two full vectors below)
MaxCandidate == 2
MaxRequired == 3

\* weights are in tenths: 10 is 1.0
CandidateTokens == <<"python", "sql", "java", "javascript">>
RequiredTokens == <<"python", "sql", "react", "java", "fastapi">>
AllTokens == <<"python", "sql", "react", "java", "fastapi", "kafka", "aws", "docker">>
CandidateWeights == {10, 7, 5, 3}
RequiredWeights == {10, 5}
Texts == {"", "python and java developer"}

Entry(token, weight) == [token |-> token, weight |-> weight]

\* the weights of a long candidate vector: two core, two adjacent, two advanced
\* skills and two keywords
TieredWeights == <<10, 10, 7, 7, 5, 5, 3, 3>>

\* build_candidate_skill_vector inserts core, then adjacent, then advanced
\* skills, then keywords: distinct tokens, weights never increasing; besides
\* the short vectors, the two long ones
CandidateVectors ==
    {v \in UNION {[1..n -> [token : Range(CandidateTokens), weight : CandidateWeights]] :
                  n \in 0..MaxCandidate} :
        /\ \A i, j \in DOMAIN v : i < j => v[i].token # v[j].token
        /\ \A i, j \in DOMAIN v : i < j => v[i].weight >= v[j].weight}
    \cup {[k \in DOMAIN AllTokens |-> Entry(AllTokens[k], 10)],
          [k \in DOMAIN AllTokens |-> Entry(AllTokens[k], TieredWeights[k])]}

\* extract_jd_skills: distinct tokens; the model lists them in one order;
\* besides the short vectors, the long ones: all required, all preferred, and
\* all required but the first
RequiredVectors ==
    {v \in UNION {[1..n -> [token : Range(RequiredTokens), weight : RequiredWeights]] :
                  n \in 0..MaxRequired} :
        \A i, j \in DOMAIN v : i < j =>
            \E a, b \in DOMAIN RequiredTokens :
                a < b /\ RequiredTokens[a] = v[i].token /\ RequiredTokens[b] = v[j].token}
    \cup {[k \in DOMAIN AllTokens |-> Entry(AllTokens[k], w)] : w \in RequiredWeights}
    \cup {[k \in DOMAIN AllTokens |-> Entry(AllTokens[k], IF k = 1 THEN 5 ELSE 10)]}

\* the inner loop: the weight of the first candidate entry that equals the
\* token, contains it or is contained in it; None when there is none
RECURSIVE FindCandidate(_, _)
FindCandidate(candidate_vector, jd_skill_lower) ==
    IF candidate_vector = <<>> THEN None
    ELSE LET c == Head(candidate_vector)
         IN IF c.token = jd_skill_lower THEN c.weight
            ELSE IF Contains(jd_skill_lower, c.token) \/ Contains(c.token, jd_skill_lower)
            THEN c.weight
            ELSE FindCandidate(Tail(candidate_vector), jd_skill_lower)

TierBonus_flat(candidate_weight) == CORE_MATCH_BONUS

\* the bonus and the label of a match, by the candidate's weight
TierBonus(candidate_weight) ==
    IF candidate_weight >= 10 THEN CORE_MATCH_BONUS
    ELSE IF candidate_weight >= 7 THEN ADJACENT_MATCH_BONUS
    ELSE IF candidate_weight >= 5 THEN ADVANCED_MATCH_BONUS
    ELSE MENTIONED_MATCH_BONUS

TierLabel(candidate_weight) ==
    IF candidate_weight >= 10 THEN "core skill"
    ELSE IF candidate_weight >= 7 THEN "adjacent skill"
    ELSE IF candidate_weight >= 5 THEN "advanced skill"
    ELSE "mentioned"

\* `jd_skill_lower in resume_lower`
InResume(jd_skill_lower, resume_text) == Contains(jd_skill_lower, resume_text)

\* one pass of the outer loop over acc = [score, why_fit, gaps, used]
ScoreStep(acc, jd, candidate_vector, resume_text) ==
    LET jd_skill_lower == Normal(jd.token)
        candidate_weight == FindCandidate(candidate_vector, jd_skill_lower)
        tool == IF jd_skill_lower \in exact_tools THEN EXACT_TOOL_BONUS ELSE 0
        boost == IF InResume(jd_skill_lower, resume_text) THEN EXPERIENCE_BOOST ELSE 0
    IN IF candidate_weight # None
       THEN [score |-> acc.score + TierBonus(candidate_weight) + tool + boost,
             why_fit |-> acc.why_fit \o <<<<jd.token, TierLabel(candidate_weight)>>>>
                         \o (IF jd_skill_lower \in exact_tools
                             THEN <<<<jd.token, "Exact tool match">>>> ELSE <<>>),
             gaps |-> acc.gaps,
             used |-> Append(acc.used, candidate_weight)]
       ELSE [score |-> acc.score - (IF jd.weight >= 10 THEN REQUIRED_GAP_PENALTY
                                    ELSE OPTIONAL_GAP_PENALTY),
             why_fit |-> acc.why_fit,
             gaps |-> Append(acc.gaps,
                             <<jd.token, IF jd.weight >= 10 THEN "required" ELSE "preferred">>),
             used |-> Append(acc.used, None)]

RECURSIVE ScoreLoop(_, _, _, _)
ScoreLoop(acc, jd_vector, candidate_vector, resume_text) ==
    IF jd_vector = <<>> THEN acc
    ELSE ScoreLoop(ScoreStep(acc, Head(jd_vector), candidate_vector, resume_text),
                   Tail(jd_vector), candidate_vector, resume_text)

Max(a, b) == IF a >= b THEN a ELSE b

\* what score_job_match returns; used (not returned) is the candidate weight
\* found for each requirement token
score_job_match(candidate_vector, jd_vector, resume_text) ==
    LET acc == ScoreLoop([score |-> 0, why_fit |-> <<>>, gaps |-> <<>>, used |-> <<>>],
                         jd_vector, candidate_vector, resume_text)
        why_fit == Take(acc.why_fit, max_why_fit)
    IN [score |-> Max(0, Min(100, base_score + acc.score)),
        why_fit |-> IF why_fit = <<>> THEN <<<<"", "Relevant role match">>>> ELSE why_fit,
        gaps |-> Take(acc.gaps, max_gaps),
        used |-> acc.used]

\* one call of score_job_match
ScoreJobMatch ==
    /\ scoring.pc = "idle"
    /\ \E candidate_vector \in CandidateVectors, jd_vector \in RequiredVectors,
          resume_text \in Texts :
           scoring' = [pc |-> "returned", candidate_vector |-> candidate_vector,
                       jd_vector |-> jd_vector, resume_text |-> resume_text,
                       result |-> score_job_match(candidate_vector, jd_vector,
                                                  resume_text)]
    /\ UNCHANGED <<breaker_vars, analyze, search, endpoint, role>>

(* JobScoringService.build_candidate_skill_vector *)

\* each of the core, adjacent and advanced lists names at most MaxListed skills
MaxListed == 1

core_weight == 10
adjacent_weight == 7
advanced_weight == 5
keyword_weight == 3
strength_boost == 2
full_weight == 10

\* skills as the analysis names them
ListedSkills == {"Python", " sql ", "sql"}
SkillsLists == UNION {[1..n -> ListedSkills] : n \in 0..MaxListed}
KeywordLists == {<<>>, <<"sql">>, <<"java", "Python">>}
StrengthLists ==
    {<<>>, <<"strong sql skills">>, <<"sql tuning and python">>,
     <<"strong sql skills", "sql tuning and python">>,
     <<"sql tuning and python", "strong sql skills">>}

Analyses ==
    [core : SkillsLists, adjacent : SkillsLists, advanced : SkillsLists,
     keywords_detected : KeywordLists, strengths : StrengthLists]

\* `key in skill_vector`
HasKey(skill_vector, key) == \E k \in DOMAIN skill_vector : skill_vector[k].token = key

\* skill_vector[key] = weight: a new key goes last, a present key keeps its place
SetKey(skill_vector, key, weight) ==
    IF HasKey(skill_vector, key)
    THEN [k \in DOMAIN skill_vector |->
            IF skill_vector[k].token = key THEN Entry(key, weight) ELSE skill_vector[k]]
    ELSE Append(skill_vector, Entry(key, weight))

\* the core loop assigns, the three later loops assign to absent keys only
RECURSIVE AddSkills(_, _, _, _)
AddSkills(skill_vector, skills, weight, override) ==
    IF skills = <<>> THEN skill_vector
    ELSE LET skill_lower == Normal(Head(skills))
         IN AddSkills(IF override \/ ~HasKey(skill_vector, skill_lower)
                      THEN SetKey(skill_vector, skill_lower, weight)
                      ELSE skill_vector,
                      Tail(skills), weight, override)

\* one strength statement: every key occurring in it gains 0.2, up to 1.0
BoostBy(skill_vector, strength) ==
    [k \in DOMAIN skill_vector |->
        IF Contains(skill_vector[k].token, Normal(strength))
        THEN Entry(skill_vector[k].token,
                   Min(full_weight, skill_vector[k].weight + strength_boost))
        ELSE skill_vector[k]]

RECURSIVE Boost(_, _)
Boost(skill_vector, strengths) ==
    IF strengths = <<>> THEN skill_vector
    ELSE Boost(BoostBy(skill_vector, Head(strengths)), Tail(strengths))

build_candidate_skill_vector_unboosted(analysis) ==
    AddSkills(AddSkills(AddSkills(AddSkills(<<>>, analysis.core, core_weight, TRUE),
                                  analysis.adjacent, adjacent_weight, FALSE),
                        analysis.advanced, advanced_weight, FALSE),
              analysis.keywords_detected, keyword_weight, FALSE)

build_candidate_skill_vector(analysis) ==
    Boost(build_candidate_skill_vector_unboosted(analysis), analysis.strengths)

\* one call of build_candidate_skill_vector
BuildCandidateSkillVector ==
    /\ scoring.pc = "idle"
    /\ \E analysis \in Analyses :
           scoring' = [pc |-> "built", analysis |-> analysis,
                       skill_vector |-> build_candidate_skill_vector(analysis)]
    /\ UNCHANGED <<breaker_vars, analyze, search, endpoint, role>>

(* JobScoringService.generate_fix_actions *)

\* a list of gaps has at most MaxGaps entries
MaxGaps == 4

max_fix_actions == 3

\* gap strings: f"{skill.title()} X ({status})" as score_job_match writes them,
\* and a string without any letter or space
GapStrings ==
    {<<"python", "required">>, <<"aws", "preferred">>, <<"mysql", "required">>,
     <<"docker", "preferred">>, <<"kafka", "required">>, <<"c++", "required">>,
     <<"123", "">>}

GapLists == UNION {[1..n -> GapStrings] : n \in 0..MaxGaps}

\* re.search(r'([A-Za-z\s]+)', gap), stripped and lowercased: the first run of
\* letters and spaces; no skill when the string has none
SkillIn(gap) ==
    CASE gap = <<"123", "">> -> <<>>
      [] gap[1] = "c++" -> <<"c">>
      [] OTHER -> <<Normal(gap[1])>>

\* the learning action chosen for a skill name
FixAction(skill_lower) ==
    IF Contains("aws", skill_lower) \/ Contains("cloud", skill_lower)
    THEN <<"Learn AWS S3 basics (2h) - FreeCodeCamp AWS course">>
    ELSE IF Contains("python", skill_lower)
    THEN <<"Complete Python fundamentals (4h) - Python.org tutorial">>
    ELSE IF Contains("sql", skill_lower)
    THEN <<"Practice SQL queries (3h) - SQLBolt interactive tutorial">>
    ELSE IF Contains("react", skill_lower) \/ Contains("frontend", skill_lower)
    THEN <<"Build React app (5h) - React official tutorial">>
    ELSE IF Contains("docker", skill_lower) \/ Contains("kubernetes", skill_lower)
    THEN <<"Learn containerization basics (3h) - Docker docs">>
    ELSE IF Contains("data", skill_lower) \/ Contains("analyst", skill_lower)
    THEN <<"Learn data analysis with pandas (4h) - DataCamp course">>
    ELSE <<"Learn ", skill_lower, " basics (3h) - Online course">>

RECURSIVE FixActions(_, _)
FixActions(fix_actions, gaps) ==
    IF gaps = <<>> THEN fix_actions
    ELSE FixActions(IF SkillIn(Head(gaps)) # <<>>
                    THEN Append(fix_actions, FixAction(SkillIn(Head(gaps))[1]))
                    ELSE fix_actions,
                    Tail(gaps))

generate_fix_actions_uncut(gaps, resume_text) == FixActions(<<>>, gaps)

generate_fix_actions(gaps, resume_text) ==
    Take(FixActions(<<>>, gaps), max_fix_actions)

\* one call of generate_fix_actions
GenerateFixActions ==
    /\ scoring.pc = "idle"
    /\ \E gaps \in GapLists, resume_text \in Texts :
           scoring' = [pc |-> "fixed", gaps |-> gaps, resume_text |-> resume_text,
                       fix_actions |-> generate_fix_actions(gaps, resume_text)]
    /\ UNCHANGED <<breaker_vars, analyze, search, endpoint, role>>

NextScoring == ScoreJobMatch \/ GenerateFixActions \/ BuildCandidateSkillVector

SpecScoring == Init /\ [][NextScoring]_vars

----------------------------------------------------------------------------
(* POST /roleMatchAndOpenings (backend/app/routes/roleMatch.py) *)

(* Bounds of the model *)

\* the request's top_n is in 0..MaxTopN
MaxTopN == 19

\* the search query: the modelled requests name one preferred role and their
\* resume has no keyword extract_keywords detects, so the candidate vector is
\* empty
RoleQueries == {"teacher", "software engineer"}
role_candidate_vector == <<>>
role_resume_text == ""

\* request.locations
RoleLocations == {<<>>, <<"Austin">>}

\* what raises during the request: nothing; the free-service block outside
\* its inner try; every scoring call; amplitude_service.track; extract_keywords
RoleFailures == {"none", "free", "scoring", "track", "keywords"}

\* a Job object; match is the int stored in it
JobObject(title, company, match, jdUrl, source) ==
    [title |-> title, company |-> company, match |-> match, jdUrl |-> jdUrl,
     source |-> source]

DedalusJob(k, match, jdUrl) ==
    JobObject(<<"dedalus", "title", k>>, <<"dedalus", "company", k>>, match,
              jdUrl, "dedalus")

\* what Dedalus gives: nothing (unavailable, failed or empty), or Job objects
\* with a match in 0..100 and the url the API sent
DedalusAnswers ==
    {<<>>,
     <<DedalusJob(1, 85, <<"https://jobs.acme.io/", 1>>)>>,
     <<DedalusJob(1, 0, NoUrl),
       DedalusJob(2, 1, <<"https://www.google.com/search?q=jobs&n=", 2>>)>>,
     <<DedalusJob(1, 1, <<"https://example.com/jobs/", 1>>),
       DedalusJob(2, 85, <<"https://jobs.acme.io/", 2>>),
       DedalusJob(3, 0, <<"https://jobs.acme.io/", 3>>)>>}

\* a record a real provider returned; jd stands for extract_jd_skills of its
\* title, company and description
ProvidedJob(k, url, jd) ==
    [title |-> <<"provider", "title", k>>, company |-> <<"provider", "company", k>>,
     url |-> url, location |-> "Remote", source |-> "jobicy", jd |-> jd]

full_required == [k \in DOMAIN AllTokens |-> Entry(AllTokens[k], 10)]

ProvidedJobs ==
    {ProvidedJob(1, <<"https://jobicy.com/jobs/", 1>>, <<>>),
     ProvidedJob(2, <<"https://www.google.com/search?q=jobs&n=", 2>>, full_required),
     ProvidedJob(3, <<"https://example.com/jobs/", 3>>, full_required)}

\* what the real providers found, in the order search_jobs collected it
ProvidedLists ==
    {<<>>} \cup {<<a>> : a \in ProvidedJobs}
           \cup {<<a, b>> : a \in ProvidedJobs, b \in ProvidedJobs}

\* extract_jd_skills of a generated record's "title company": the lists'
\* companies whose name holds a skill name ("go" in Chicago, "git" in Digital
\* and GitHub, ...)
GeneratedJd(company) ==
    CASE company = <<"education", "company", 2>> -> <<Entry("go", 6)>>
      [] company = <<"tech", "company", 1>> -> <<Entry("go", 6)>>
      [] company = <<"tech", "company", 12>> -> <<Entry("snowflake", 6)>>
      [] company = <<"other", "company", 4>> -> <<Entry("git", 6)>>
      [] company = <<"other", "company", 9>> -> <<Entry("git", 6)>>
      [] company = <<"software", "company", 0>> -> <<Entry("go", 6)>>
      [] company = <<"software", "company", 13>> -> <<Entry("git", 6)>>
      [] company = <<"software", "company", 14>> -> <<Entry("git", 6)>>
      [] OTHER -> <<>>

JdOf(job_data) ==
    IF "jd" \in DOMAIN job_data THEN job_data.jd ELSE GeneratedJd(job_data.company)

\* the match_score of a record
ScoreOf(job_data) ==
    score_job_match(role_candidate_vector, JdOf(job_data), role_resume_text).score

\* pydantic: Job.match is an int in 0..100, so a float is taken only without a
\* fractional part; RoleMatchItem.match is a float in 0.0..1.0.  Floats are
\* in hundredths.  A sequence of one object when the constructor returns, the
\* empty sequence when it raises.
job_match_valid(hundredths) ==
    hundredths % 100 = 0 /\ hundredths \div 100 >= 0 /\ hundredths \div 100 <= 100

Job(title, company, hundredths, jdUrl, source) ==
    IF job_match_valid(hundredths)
    THEN <<JobObject(title, company, hundredths \div 100, jdUrl, source)>>
    ELSE <<>>

item_match_valid(hundredths) == hundredths >= 0 /\ hundredths <= 100

RoleMatchItem(title, company, location, hundredths, url, source) ==
    IF item_match_valid(hundredths)
    THEN <<[title |-> title, company |-> company, location |-> location,
            match |-> hundredths, url |-> url, source |-> source]>>
    ELSE <<>>

\* f"{search_query} Position" and "Company"
PositionTitle(query) == <<query, "Position", 0>>
basic_company == <<"Company", "company", 0>>

\* the urls the handler makes up: "https://www.linkedin.com/jobs/view/" and
\* a number hashed from the title and company, or from the query and an index
RepairedUrl(title) == <<"https://www.linkedin.com/jobs/view/job-", title[3]>>
BasicUrl(k) == <<"https://www.linkedin.com/jobs/view/", k>>

\* request.locations[0] or the default
LocationOr(locations, default) ==
    IF locations # <<>> THEN locations[1] ELSE default

\* an exception leaves the enclosing try
Raised == [raised |-> TRUE, items |-> <<>>]
Returned(items) == [raised |-> FALSE, items |-> items]

\* the body of the three conversion loops (lines 189-249, 260-302, 379-421):
\* a Job scored from the record, or on any exception the basic Job, or nothing
\* when that raises too
RECURSIVE ConvertJobs(_, _, _, _, _)
ConvertJobs(jobs, data, req, repair, k) ==
    IF data = <<>> THEN jobs
    ELSE LET job_data == Head(data)
             job_url == IF repair /\ job_data.url = NoUrl
                        THEN RepairedUrl(job_data.title) ELSE job_data.url
             made == IF req.failure = "scoring" THEN <<>>
                     ELSE Job(job_data.title, job_data.company, ScoreOf(job_data),
                              job_url, job_data.source)
             basic_job == Job(PositionTitle(req.query), basic_company, 50,
                              BasicUrl(k), "fallback")
         IN ConvertJobs(jobs \o (IF made # <<>> THEN made ELSE basic_job),
                        Tail(data), req, repair, k + 1)

\* free_job_service.search_jobs as the handler calls it
FreeSearch(req, location, needed) ==
    SearchResult([IdleSearch EXCEPT !.query = req.query, !.location = location,
                                    !.num_results = needed, !.jobs = req.provided,
                                    !.clash = req.clash])

\* Job(match=0.5) for every record, outside any try (lines 313-329)
RECURSIVE FallbackJobs(_, _)
FallbackJobs(jobs, data) ==
    IF data = <<>> THEN Returned(jobs)
    ELSE LET job == Job(Head(data).title, Head(data).company, 50, Head(data).url,
                        "fallback")
         IN IF job = <<>> THEN Raised ELSE FallbackJobs(jobs \o job, Tail(data))

\* lines 142-331: the free job service block
FreeBlock(jobs, req) ==
    LET location == LocationOr(req.locations, "US")
        needed == IF jobs # <<>> THEN req.top_n - Len(jobs) ELSE req.top_n
        found == FreeSearch(req, location, needed)
        first == IF found = <<>>
                 THEN generate_generic_jobs(req.query, location, req.clash, needed)
                 ELSE found
        filled == IF Len(first) < needed
                  THEN first \o generate_generic_jobs(req.query, location, req.clash,
                                                      needed - Len(first))
                  ELSE first
        free_jobs_data == IF filled = <<>>
                          THEN generate_generic_jobs(req.query, location, req.clash,
                                                     needed)
                          ELSE filled
        converted == ConvertJobs(jobs, free_jobs_data, req, TRUE, 0)
    IN IF req.failure = "free"
       THEN FallbackJobs(jobs, generate_generic_jobs(req.query, location, req.clash,
                                                     req.top_n))
       ELSE Returned(
              IF Len(converted) < req.top_n
              THEN ConvertJobs(converted,
                               generate_generic_jobs(req.query, location, req.clash,
                                                     req.top_n - Len(converted)),
                               req, FALSE, Len(converted))
              ELSE converted)

\* lines 339-364: no jobs at all
RECURSIVE TryFallbackJobs(_, _)
TryFallbackJobs(jobs, data) ==
    IF data = <<>> THEN jobs
    ELSE TryFallbackJobs(jobs \o Job(Head(data).title, Head(data).company, 50,
                                     Head(data).url, "fallback"),
                         Tail(data))

NoJobsBlock(jobs, req) ==
    IF jobs = <<>>
    THEN TryFallbackJobs(jobs,
             generate_generic_jobs(req.query, LocationOr(req.locations, "Remote"),
                                   req.clash, req.top_n))
    ELSE jobs

\* lines 370-423: fewer jobs than top_n before processing
TopUpJobs(jobs, req) ==
    IF Len(jobs) < req.top_n
    THEN ConvertJobs(jobs,
                     generate_generic_jobs(req.query, LocationOr(req.locations, "US"),
                                           req.clash, req.top_n - Len(jobs)),
                     req, FALSE, Len(jobs))
    ELSE jobs

\* line 432: the url is replaced
never_banned(url) == FALSE
banned(url) ==
    \/ url = NoUrl
    \/ Contains("google.com/search", url[1])
    \/ Contains("example.com", url[1])

\* lines 425-473: at most top_n jobs become items; a job whose item cannot be
\* built is skipped
RECURSIVE ProcessJobs(_, _, _)
ProcessJobs(valid_items, jobs, req) ==
    IF jobs = <<>> THEN valid_items
    ELSE LET job == Head(jobs)
             url == IF banned(job.jdUrl) THEN RepairedUrl(job.title) ELSE job.jdUrl
         IN ProcessJobs(valid_items
                          \o RoleMatchItem(job.title, job.company,
                                           LocationOr(req.locations, "Remote"),
                                           job.match * 100, url, job.source),
                        Tail(jobs), req)

jobs_to_process(jobs, req) ==
    IF Len(jobs) > req.top_n THEN Take(jobs, req.top_n) ELSE jobs

\* the item of a generated record, scored: nothing when scoring raises
ScoredItem(job_data, location, source, req) ==
    IF req.failure = "scoring" THEN <<>>
    ELSE RoleMatchItem(job_data.title, job_data.company, location,
                       ScoreOf(job_data), job_data.url, source)

\* the item the handlers build on an exception and as the very last resort
BasicItem(location, k, source, req) ==
    RoleMatchItem(PositionTitle(req.query), basic_company, location, 50,
                  BasicUrl(k), source)

\* a loop whose body is not in a try (lines 485-508)
RECURSIVE ScoredItems(_, _, _, _, _)
ScoredItems(valid_items, data, location, source, req) ==
    IF data = <<>> THEN Returned(valid_items)
    ELSE LET item == ScoredItem(Head(data), location, source, req)
         IN IF item = <<>> THEN Raised
            ELSE ScoredItems(valid_items \o item, Tail(data), location, source, req)

\* a loop whose body falls back to the basic item (lines 530-568, 586-623,
\* 728-766); the basic item is built outside any try
RECURSIVE TryScoredItems(_, _, _, _, _, _)
TryScoredItems(valid_items, data, location, source, req, k) ==
    IF data = <<>> THEN Returned(valid_items)
    ELSE LET item == ScoredItem(Head(data), location, source, req)
             basic == BasicItem(location, k, source, req)
         IN IF item = <<>> /\ basic = <<>> THEN Raised
            ELSE TryScoredItems(valid_items \o (IF item # <<>> THEN item ELSE basic),
                                Tail(data), location, source, req, k + 1)

\* lines 476-509: no valid item after processing
EmergencyBlock(valid_items, req) ==
    LET location == LocationOr(req.locations, "Remote")
    IN IF valid_items = <<>>
       THEN ScoredItems(valid_items,
                        generate_generic_jobs(req.query, location, req.clash, req.top_n),
                        location, "emergency", req)
       ELSE Returned(valid_items)

\* lines 512-519: amplitude_service.track
Track(valid_items, req) ==
    IF req.failure = "track" THEN Raised ELSE Returned(valid_items)

\* lines 522-570: still no item
FinalFallbackBlock(valid_items, req) ==
    LET location == LocationOr(req.locations, "Remote")
    IN IF valid_items = <<>>
       THEN TryScoredItems(valid_items,
                           generate_generic_jobs(req.query, location, req.clash,
                                                 req.top_n),
                           location, "final-fallback", req, 0)
       ELSE Returned(valid_items)

\* lines 576-625: fewer items than top_n
FinalCheckBlock_skipped(valid_items, req) == Returned(valid_items)
FinalCheckBlock(valid_items, req) ==
    LET location == LocationOr(req.locations, "Remote")
    IN IF Len(valid_items) < req.top_n
       THEN TryScoredItems(valid_items,
                           generate_generic_jobs(req.query, location, req.clash,
                                                 req.top_n - Len(valid_items)),
                           location, "final-check", req, Len(valid_items))
       ELSE Returned(valid_items)

\* lines 628-648: top_n more items at 0.5 when there are still too few
RECURSIVE HalfItems(_, _, _, _)
HalfItems(valid_items, data, location, source) ==
    IF data = <<>> THEN Returned(valid_items)
    ELSE LET item == RoleMatchItem(Head(data).title, Head(data).company, location, 50,
                                   Head(data).url, source)
         IN IF item = <<>> THEN Raised
            ELSE HalfItems(valid_items \o item, Tail(data), location, source)

LastResortBlock(valid_items, req) ==
    LET location == LocationOr(req.locations, "Remote")
    IN IF Len(valid_items) < req.top_n
       THEN HalfItems(valid_items,
                      generate_generic_jobs(req.query, location, req.clash, req.top_n),
                      location, "last-resort")
       ELSE Returned(valid_items)

\* lines 651-664 and 770-781: at least one item
AtLeastOne_skipped(valid_items, source, req) == Returned(valid_items)
AtLeastOne(valid_items, source, req) ==
    LET item == BasicItem(LocationOr(req.locations, "Remote"), 0, source, req)
    IN IF valid_items = <<>>
       THEN (IF item = <<>> THEN Raised ELSE Returned(item))
       ELSE Returned(valid_items)

\* the steps of the outer try in turn: a step that raises ends the body
Keywords(req) ==
    IF req.failure = "keywords" THEN Raised ELSE Returned(req.dedalus)

FreeStep(step, req) ==
    IF step.raised THEN Raised ELSE FreeBlock(step.items, req)

ProcessStep(step, req) ==
    IF step.raised THEN Raised
    ELSE Returned(ProcessJobs(<<>>,
                      jobs_to_process(TopUpJobs(NoJobsBlock(step.items, req), req), req),
                      req))

EmergencyStep(step, req) ==
    IF step.raised THEN Raised ELSE EmergencyBlock(step.items, req)

TrackStep(step, req) ==
    IF step.raised THEN Raised ELSE Track(step.items, req)

FinalFallbackStep(step, req) ==
    IF step.raised THEN Raised ELSE FinalFallbackBlock(step.items, req)

FinalCheckStep(step, req) ==
    IF step.raised THEN Raised ELSE FinalCheckBlock(step.items, req)

LastResortStep(step, req) ==
    IF step.raised THEN Raised ELSE LastResortBlock(step.items, req)

AtLeastOneStep(step, source, req) ==
    IF step.raised THEN Raised ELSE AtLeastOne(step.items, source, req)

\* lines 44-681: the body of the outer try
MainPath(req) ==
    AtLeastOneStep(
      LastResortStep(
        FinalCheckStep(
          FinalFallbackStep(
            TrackStep(
              EmergencyStep(
                ProcessStep(FreeStep(Keywords(req), req), req),
                req),
              req),
            req),
          req),
        req),
      "last-resort", req)

\* lines 683-790: the handler of the outer try
EmergencyItems(req) ==
    IF req.failure = "keywords" THEN Raised
    ELSE TryScoredItems(<<>>,
             generate_generic_jobs(req.query, LocationOr(req.locations, "Remote"),
                                   req.clash, req.top_n),
             LocationOr(req.locations, "Remote"), "emergency", req, 0)

EmergencyPath(req) == AtLeastOneStep(EmergencyItems(req), "emergency", req)

\* lines 791-827: the handler of that handler
LastResortPath(req) ==
    LET item == BasicItem(LocationOr(req.locations, "Remote"), 0, "last-resort", req)
    IN IF item = <<>> THEN Raised ELSE Returned(item)

\* the response, the path that built it, and whether an exception left it
Response(path, step) ==
    [path |-> path, raised |-> step.raised, items |-> step.items]

\* the except clauses: the handler's result when the guarded body raised
Except(path, step, handled) ==
    IF step.raised THEN handled ELSE Response(path, step)

\* role_match_and_openings
role_match_and_openings(req) ==
    Except("main", MainPath(req),
           Except("emergency", EmergencyPath(req),
                  Response("last-resort", LastResortPath(req))))

\* one request handled from start to return
RoleMatch ==
    /\ role.pc = "idle"
    /\ \E top_n \in 0..MaxTopN, query \in RoleQueries, locations \in RoleLocations,
          dedalus \in DedalusAnswers, provided \in ProvidedLists,
          clash \in HashClashes, failure \in RoleFailures :
           LET req == [top_n |-> top_n, query |-> query, locations |-> locations,
                       dedalus |-> dedalus, provided |-> provided, clash |-> clash,
                       failure |-> failure]
           IN role' = [pc |-> "returned", request |-> req,
                       response |-> role_match_and_openings(req)]
    /\ UNCHANGED <<breaker_vars, analyze, search, endpoint, scoring>>

NextRole == RoleMatch

SpecRole == Init /\ [][NextRole]_vars

----------------------------------------------------------------------------
(* AnthropicService.analyze_resume (backend/app/services/anthropic_svc.py) *)

analyze_max_retries == 3

\* the scores a response may carry: 0..100 is what AnalyzeResponse accepts
ResponseScores == {0 - 1, 0, 75, 100, 101, 150}

\* the text the model sends back: a JSON object with a score, or something
\* json.loads rejects, bare or wrapped in a markdown fence (three backquotes,
\* with or without the word json)
Fences == {"", "fence json", "fence"}
Bodies == {<<"json", score>> : score \in ResponseScores} \cup {<<"not json", 0>>}
ResponseTexts == {<<fence, body>> : fence \in Fences, body \in Bodies}

\* what client.messages.create does: it answers with a text, or raises
ModelAnswers == ResponseTexts \cup {<<"raises", <<"APIError", 0>>>>}

\* the text without its fence (lines 314-320)
Unfenced(response_text) == response_text[2]

\* json.loads: the data, or nothing when it raises JSONDecodeError
Loads(body) == IF body[1] = "json" THEN <<[score |-> body[2]]>> ELSE <<>>

\* analyze_resume is entered; without an API key it raises at once
AnalyzeStart ==
    /\ analyze.pc = "idle"
    /\ \E has_key \in BOOLEAN :
          analyze' = IF has_key
                     THEN [pc |-> "loop", attempt |-> 0, answers |-> <<>>,
                           data |-> <<>>, raised |-> ""]
                     ELSE [pc |-> "raised", attempt |-> 0, answers |-> <<>>,
                           data |-> <<>>, raised |-> "ValueError"]
    /\ UNCHANGED <<breaker_vars, search, endpoint, role, scoring>>

\* one pass of the loop: the model call and what follows it
AnalyzeAttempt ==
    /\ analyze.pc = "loop"
    /\ analyze.attempt < analyze_max_retries
    /\ \E answer \in ModelAnswers :
          LET answers == Append(analyze.answers, answer)
              data == Loads(Unfenced(answer))
              retry == analyze.attempt < analyze_max_retries - 1
          IN analyze' =
               IF answer[1] = "raises"
               THEN [analyze EXCEPT !.pc = "raised", !.answers = answers,
                                    !.raised = "Exception"]
               ELSE IF data = <<>>
               THEN IF retry
                    THEN [analyze EXCEPT !.attempt = @ + 1, !.answers = answers]
                    ELSE [analyze EXCEPT !.pc = "raised", !.answers = answers,
                                         !.raised = "ValueError"]
               ELSE [analyze EXCEPT !.pc = "returned", !.answers = answers,
                                    !.data = data]
    /\ UNCHANGED <<breaker_vars, search, endpoint, role, scoring>>

NextAnalyze == AnalyzeStart \/ AnalyzeAttempt

SpecAnalyze == Init /\ [][NextAnalyze]_vars

----------------------------------------------------------------------------
(* Properties of score_job_match (checked under SpecScoring) *)

\* the candidate entries that match a requirement token: equal to it, or one
\* containing the other
Matching(candidate_vector, token) ==
    {i \in DOMAIN candidate_vector :
        \/ candidate_vector[i].token = token
        \/ Contains(token, candidate_vector[i].token)
        \/ Contains(candidate_vector[i].token, token)}

\* the first of them
FirstMatching(candidate_vector, token) ==
    CHOOSE i \in Matching(candidate_vector, token) :
        \A j \in Matching(candidate_vector, token) : i <= j

\* the delta of one requirement token as the claim words it
ClaimDelta(candidate_vector, jd, resume_text) ==
    IF Matching(candidate_vector, jd.token) # {}
    THEN LET w == candidate_vector[FirstMatching(candidate_vector, jd.token)].weight
         IN (IF w >= 10 THEN 10 ELSE IF w >= 7 THEN 5 ELSE IF w >= 5 THEN 3 ELSE 2)
            + (IF jd.token \in exact_tools THEN 5 ELSE 0)
            + (IF Contains(jd.token, resume_text) THEN 2 ELSE 0)
    ELSE IF jd.weight >= 10 THEN 0 - 8 ELSE 0 - 4

Clamp(x, lo, hi) == IF x < lo THEN lo ELSE IF x > hi THEN hi ELSE x

C20_ExactMatchPreferred ==
    scoring.pc = "returned" =>
        \A k \in DOMAIN scoring.jd_vector :
            \A i \in DOMAIN scoring.candidate_vector :
                scoring.candidate_vector[i].token = scoring.jd_vector[k].token
                    => scoring.result.used[k] = scoring.candidate_vector[i].weight

\* the points behind a why_fit or gaps entry, read from its label
Impact(entry) ==
    CASE entry[2] = "core skill" -> 10
      [] entry[2] = "adjacent skill" -> 5
      [] entry[2] = "advanced skill" -> 3
      [] entry[2] = "mentioned" -> 2
      [] entry[2] = "Exact tool match" -> 5
      [] entry[2] = "required" -> 8
      [] entry[2] = "preferred" -> 4
      [] OTHER -> 0

\* the entries the loop produced, before the lists are cut
Produced ==
    ScoreLoop([score |-> 0, why_fit |-> <<>>, gaps |-> <<>>, used |-> <<>>],
              scoring.jd_vector, scoring.candidate_vector, scoring.resume_text)

\* kept holds the entries of highest impact among produced, highest first
TopByImpact(kept, produced) ==
    /\ \A i, j \in DOMAIN kept : i < j => Impact(kept[i]) >= Impact(kept[j])
    /\ \A i \in DOMAIN kept :
          Cardinality({j \in DOMAIN produced : Impact(produced[j]) > Impact(kept[i])})
              < Len(kept)

(* C21: when more than 5 why_fit entries (or more than 3 gaps) are produced, *)
(* score_job_match keeps the entries with the largest score impact and       *)
(* returns them in descending order of the delta each produced.              *)
C21_TopImpactKept ==
    scoring.pc = "returned" =>
        /\ Len(Produced.why_fit) > 5 => TopByImpact(scoring.result.why_fit, Produced.why_fit)
        /\ Len(Produced.gaps) > 3 => TopByImpact(scoring.result.gaps, Produced.gaps)

(* C22: for all candidate vectors, requirement vectors and texts             *)
(* score_job_match returns an integer score in 0..100, a why_fit list of 1   *)
(* to 5 entries (the single generic entry when nothing matched) and a gaps   *)
(* list of at most 3 entries; generate_fix_actions on any list of gap        *)
(* strings returns at most 3 actions.                                        *)
C22_ResultShape ==
    /\ scoring.pc = "returned" =>
          /\ scoring.result.score \in 0..100
          /\ Len(scoring.result.why_fit) \in 1..5
          /\ Produced.why_fit = <<>> =>
                scoring.result.why_fit = <<<<"", "Relevant role match">>>>
          /\ Len(scoring.result.gaps) \in 0..3
    /\ scoring.pc = "fixed" =>
          /\ Len(scoring.fix_actions) \in 0..3
          /\ Len(scoring.fix_actions) <= Len(scoring.gaps)

\* nothing matched and more than three gaps were produced
C22_Witness ==
    /\ scoring.pc = "returned"
    /\ Produced.why_fit = <<>>
    /\ Len(Produced.gaps) > 3
    /\ scoring.result.why_fit = <<<<"", "Relevant role match">>>>
    /\ Len(scoring.result.gaps) = 3

(* C23: score_job_match called with an empty candidate vector or an empty    *)
(* requirement vector returns the neutral baseline score 50: zero matches,   *)
(* no bonus and no penalty.                                                  *)
C23_EmptyVectorIsNeutral ==
    (/\ scoring.pc = "returned"
     /\ scoring.candidate_vector = <<>> \/ scoring.jd_vector = <<>>)
        => scoring.result.score = 50

\* the same token/weight pairs inserted in another order: v itself and v with
\* two of its entries exchanged
Reorderings(v) ==
    {[k \in DOMAIN v |-> IF k = i THEN v[j] ELSE IF k = j THEN v[i] ELSE v[k]] :
        i \in DOMAIN v, j \in DOMAIN v} \cup {v}

(* C24: score_job_match is a function of the two token-to-weight mappings    *)
(* and the text: runs whose vectors hold the same token/weight pairs, in     *)
(* whatever insertion order, return the same (score, why_fit, gaps).         *)
C24_OrderIrrelevant ==
    scoring.pc = "returned" =>
        \A c2 \in Reorderings(scoring.candidate_vector),
           j2 \in Reorderings(scoring.jd_vector) :
            LET again == score_job_match(c2, j2, scoring.resume_text)
            IN /\ again.score = scoring.result.score
               /\ again.why_fit = scoring.result.why_fit
               /\ again.gaps = scoring.result.gaps

\* the reference of C25: the weight of the first category listing the token
CategoryWeight(analysis, token) ==
    LET Lists(seq) == \E k \in DOMAIN seq : Normal(seq[k]) = token
    IN IF Lists(analysis.core) THEN 10
       ELSE IF Lists(analysis.adjacent) THEN 7
       ELSE IF Lists(analysis.advanced) THEN 5
       ELSE 3

\* ... raised by 0.2 once when some strength statement holds the token
ReferenceWeight(analysis, token) ==
    IF \E k \in DOMAIN analysis.strengths : Contains(token, Normal(analysis.strengths[k]))
    THEN Min(10, CategoryWeight(analysis, token) + 2)
    ELSE CategoryWeight(analysis, token)

(* C25: build_candidate_skill_vector equals the reference: each lowercased,  *)
(* trimmed token gets the weight of the first category listing it in the     *)
(* order core 1.0, adjacent 0.7, advanced 0.5, detected keyword 0.3; then    *)
(* each token occurring as a substring of at least one strength statement is *)
(* raised by 0.2 exactly once, capped at 1.0; no weight exceeds 1.0.         *)
C25_VectorEqualsReference ==
    scoring.pc = "built" =>
        /\ \A k \in DOMAIN scoring.skill_vector :
              /\ scoring.skill_vector[k].weight
                    = ReferenceWeight(scoring.analysis, scoring.skill_vector[k].token)
              /\ scoring.skill_vector[k].weight <= 10
        /\ \A i, j \in DOMAIN scoring.skill_vector :
              i # j => scoring.skill_vector[i].token # scoring.skill_vector[j].token

----------------------------------------------------------------------------
(* C11: in the acquisition cascade a provider whose breaker is open is       *)
(* skipped without an outbound call, and each provider failure is recorded  *)
(* in that provider's breaker: after an adapter call of search_jobs the     *)
(* breaker of the adapter called was not open, and if the call failed the   *)
(* breaker holds a failure for it.                                          *)
C11_CascadeThroughBreaker ==
    search.called # "" =>
        /\ StateOf(circuits, search.called) # "open"
        /\ search.outcome = "error" => FailuresOf(circuits, search.called) > 0

\* the (title, company, location) key of a record
JobKey(job) == <<job.title, job.company, job.location>>

\* no two entries of a sequence of records have the same url, or the same key
DistinctUrls(jobs) ==
    \A i, j \in DOMAIN jobs : i # j => jobs[i].url # jobs[j].url
DistinctKeys(jobs) ==
    \A i, j \in DOMAIN jobs : i # j => JobKey(jobs[i]) # JobKey(jobs[j])

\* search_jobs has returned and no adapter contributed a record
AllGenerated(s) ==
    /\ s.pc = "done"
    /\ \A k \in DOMAIN s.jobs : s.jobs[k].source = "generated"

(* C14: when every real provider yields nothing, search_jobs returns exactly *)
(* num_results generated records, pairwise distinct by url and by           *)
(* (title, company, location).                                              *)
C14_GeneratedExactDistinct ==
    AllGenerated(search) =>
        /\ Len(search.jobs) = search.num_results
        /\ DistinctUrls(search.jobs)
        /\ DistinctKeys(search.jobs)

(* C13: POST /jobs/search returns at least one item for every valid request *)
(* (limit >= 1, minMatch in 0..1, any skills), also when no collected or    *)
(* fallback job reaches minMatch.                                           *)
C13_SearchNeverEmpty ==
    endpoint.pc = "returned" => Len(endpoint.items) >= 1

----------------------------------------------------------------------------
(* Properties of role_match_and_openings (checked under SpecRole) *)

RoleReturned == role.pc = "returned"

(* C12: role_match_and_openings never raises to its caller and never returns
   an empty item list: for every request (top_n = 0 included) and every
   combination of provider errors, empty provider results, scoring errors and
   model-construction errors the response holds at least one item. *)
C12_NeverRaisesNeverEmpty ==
    RoleReturned => /\ ~role.response.raised
                    /\ Len(role.response.items) >= 1

\* top_n = 0 and nothing went wrong: the single item of lines 651-664
C12_Witness ==
    /\ RoleReturned
    /\ role.request.top_n = 0
    /\ role.request.failure = "none"
    /\ role.response.path = "main"
    /\ Len(role.response.items) = 1
    /\ role.response.items[1].source = "last-resort"

(* C15: for every top_n >= 1 the response holds exactly top_n items on every
   path but the last-resort one, which returns exactly one item. *)
C15_ExactlyTopN ==
    (RoleReturned /\ role.request.top_n >= 1) =>
        Len(role.response.items) =
            (IF role.response.path = "last-resort" THEN 1 ELSE role.request.top_n)

\* Dedalus jobs were kept, one of them could not become an item, and the
\* final check filled the gap
C15_Witness ==
    /\ RoleReturned
    /\ role.response.path = "main"
    /\ Len(role.request.dedalus) = role.request.top_n
    /\ Len(role.response.items) = role.request.top_n
    /\ \E i, j \in DOMAIN role.response.items :
          /\ role.response.items[i].source = "dedalus"
          /\ role.response.items[j].source = "final-check"

(* C16: no two items of a response share the same normalized
   (title, company, location) key, the items of the synthetic top-up passes
   included. *)
ItemKey(item) == <<item.title, item.company, Normal(item.location)>>

C16_NoDuplicateItems ==
    RoleReturned =>
        \A i, j \in DOMAIN role.response.items :
            i # j => ItemKey(role.response.items[i]) # ItemKey(role.response.items[j])

(* C17: every returned item has a non-empty url that contains neither
   "google.com/search" nor "example.com", whatever urls the providers gave. *)
Placeholder(url) ==
    \/ url = NoUrl
    \/ Contains("google.com/search", url[1])
    \/ Contains("example.com", url[1])

C17_NoPlaceholderUrl ==
    RoleReturned =>
        \A i \in DOMAIN role.response.items : ~Placeholder(role.response.items[i].url)

\* a provider's record with a placeholder url became an item with a made-up url
C17_Witness ==
    /\ RoleReturned
    /\ \E i \in DOMAIN role.response.items, k \in DOMAIN role.request.provided :
          /\ role.response.items[i].title = role.request.provided[k].title
          /\ Placeholder(role.request.provided[k].url)
          /\ role.response.items[i].url = RepairedUrl(role.request.provided[k].title)

(* C18: the items of a response are ordered by match score, highest first. *)
C18_SortedByMatch ==
    RoleReturned =>
        \A i, j \in DOMAIN role.response.items :
            i < j => role.response.items[i].match >= role.response.items[j].match

----------------------------------------------------------------------------
(* Properties of analyze_resume (checked under SpecAnalyze) *)

\* a response is usable when it is valid JSON that passes schema validation
Usable(answer) ==
    /\ answer[1] # "raises"
    /\ answer[2][1] = "json"
    /\ answer[2][2] \in 0..100

(* C26: analyze_resume makes at most max_retries (3) model calls and retries *)
(* whenever a response is unusable (not valid JSON, or failing schema        *)
(* validation such as a score outside 0..100); it returns the first valid    *)
(* response, the number of model calls equals the position of that response, *)
(* and a returned score is always within 0..100.                             *)
C26_RetriesUntilValid ==
    /\ analyze.pc # "idle" => Len(analyze.answers) <= 3
    /\ analyze.pc = "returned" =>
          LET calls_made == Len(analyze.answers)
          IN /\ Usable(analyze.answers[calls_made])
             /\ \A k \in 1..(calls_made - 1) : ~Usable(analyze.answers[k])
             /\ analyze.data[1].score \in 0..100

----------------------------------------------------------------------------
(* Properties of the search_jobs cascade (checked under SpecSearch) *)

\* one step of the cascade: the provider whose turn it is (and no other) is
\* consulted or passed over, once; an exception or an empty answer leaves the
\* accumulator as it was and the cascade goes on; the generator runs after the
\* last provider and is asked for exactly the shortfall
CascadeStep ==
    search.pc = "adapters" =>
        /\ search'.pc = "adapters" =>
              /\ search.next <= Len(Adapters)
              /\ search'.next = search.next + 1
              /\ search'.called \in {"", Adapters[search.next]}
              /\ search'.called = "" => search'.jobs = search.jobs
              /\ search'.outcome \in {"error", "empty"} => search'.jobs = search.jobs
        /\ search'.pc = "done" =>
              /\ search.next > Len(Adapters)
              /\ search'.generated =
                    (IF Len(search.jobs) < search.num_results
                     THEN search.num_results - Len(search.jobs) ELSE 0)
        /\ search'.pc \in {"adapters", "done"}

\* a provider is consulted only while the accumulator is short
ConsultedWhileShort ==
    (search.pc = "adapters" /\ search'.pc = "adapters" /\ search'.called # "")
        => Len(search.jobs) < search.num_results

(* C27: search_jobs consults the real providers one at a time in a fixed     *)
(* priority order, each at most once and only while fewer than num_results   *)
(* records have been accumulated; an exception or an empty result from one   *)
(* provider only skips that provider and never aborts the cascade; the       *)
(* synthetic generator runs after all real providers, only if the            *)
(* accumulator is still short, and is asked for exactly the shortfall.       *)
C27_Cascade == [][CascadeStep /\ ConsultedWhileShort]_vars

----------------------------------------------------------------------------
(* Properties of the breaker's frame (checked under Spec) *)

BreakerMethods == {"is_open", "record_success", "record_failure"}

\* provider q has the same entry (or the same absence of one) after the step
Untouched(q) ==
    /\ (q \in DOMAIN circuits') = (q \in DOMAIN circuits)
    /\ q \in DOMAIN circuits => circuits'[q] = circuits[q]

(* C28: breaker state is isolated per provider: is_open, record_success and  *)
(* record_failure on provider p never change the state, failure count or     *)
(* opened_at of any other provider q, and is_open on a provider with no      *)
(* recorded history returns false without creating an entry for it.          *)
C28_IsolatedPerProvider ==
    [][last'.op \in BreakerMethods =>
          /\ \A q \in Providers \ {last'.provider} : Untouched(q)
          /\ (last'.op = "is_open" /\ last'.provider \notin DOMAIN circuits)
                => (last'.ret = FALSE /\ circuits' = circuits)]_vars

\* p was opened by a failure while q keeps its own single failure
C28_Witness ==
    /\ last.op = "record_failure"
    /\ last.provider = "p"
    /\ StateOf(circuits, "p") = "open"
    /\ StateOf(circuits, "q") = "closed"
    /\ FailuresOf(circuits, "q") = 1

(* C29: record_failure sets opened_at only when it moves the breaker into    *)
(* open (closed to open on reaching the threshold, or half-open to open); a  *)
(* record_failure arriving while the breaker is already open leaves state    *)
(* and opened_at unchanged, so the cooldown is never extended.               *)
C29_NoRestampWhileOpen ==
    [][last'.op = "record_failure" =>
          LET p == last'.provider
          IN /\ StateOf(circuits, p) = "open" =>
                   /\ StateOf(circuits', p) = "open"
                   /\ OpenedAtOf(circuits', p) = OpenedAtOf(circuits, p)
             /\ OpenedAtOf(circuits', p) # OpenedAtOf(circuits, p) =>
                   /\ StateOf(circuits, p) # "open"
                   /\ StateOf(circuits', p) = "open"]_vars

----------------------------------------------------------------------------
(* C30: in role_match_and_openings each record returned by the free job      *)
(* service is scored and converted to a Job whose match is its score divided *)
(* by 100, and (up to top_n) appears in the response with its own title,     *)
(* company, source and url (a placeholder url replaced); synthetic emergency *)
(* records replace provider records only when the providers returned none.   *)

\* the records search_jobs returns to the handler when Dedalus gave nothing
FreeRecords ==
    FreeSearch(role.request, LocationOr(role.request.locations, "US"),
               role.request.top_n)

\* the item a record of the free job service should become
ItemOf(job_data, item) ==
    /\ item.title = job_data.title
    /\ item.company = job_data.company
    /\ item.source = job_data.source
    /\ item.match = ScoreOf(job_data)
    /\ item.url = (IF Placeholder(job_data.url) THEN RepairedUrl(job_data.title)
                   ELSE job_data.url)

C30_FreeRecordsReturned ==
    (/\ RoleReturned
     /\ role.request.failure = "none"
     /\ role.request.dedalus = <<>>)
        => /\ \A k \in DOMAIN FreeRecords :
                 \E i \in DOMAIN role.response.items :
                     ItemOf(FreeRecords[k], role.response.items[i])
           /\ (\E i \in DOMAIN role.response.items :
                   role.response.items[i].source = "emergency")
                 => \A k \in DOMAIN FreeRecords : FreeRecords[k].source = "generated"

====
